---- MODULE Spec2Model ----
(***************************************************************************)
(* Model of Hardware-Info.py: the multi-source hardware data collectors,   *)
(* their fallback chains, the HTML helpers they render with, and main().   *)
(*                                                                         *)
(* Rendering.  An HTML fragment built by a collector is kept as a sequence *)
(* of parts.  A part is one make_sub(...) sub-section, one bare            *)
(* <p class="note"> paragraph, or one bare table.  Of the markup of a part *)
(* the model keeps what the properties speak about:                        *)
(*   title  the static title (or the static prefix of a computed title)    *)
(*   kind   "sub" | "subnote" (make_sub around a note) | "note" | "table"  *)
(*   src    the adapters whose data is inside the part                     *)
(*   keys   the labels the program itself puts into the cells: the row     *)
(*          labels of a key-value table, the memory-type column            *)
(*   texts  every chunk of text that came from outside the program, as it  *)
(*          stands in the document (character sequences)                   *)
(*   bars   the progress bars, each as [width, label] in tenths of percent *)
(* Text is a sequence of one-character strings.  Percentages are integers  *)
(* counting tenths of a percent, the precision of the "{:.1f}" format.     *)
(***************************************************************************)
EXTENDS Integers, Sequences, FiniteSets, TLC

(***************************************************************************)
(* Bounds of the model                                                     *)
(***************************************************************************)
MaxStrLen == 2      \* longest text handed to esc on its own
MaxItems == 2       \* most records one adapter returns (GPUs, modules, lines, ...)
MaxCores == 1       \* most logical cores psutil reports usage for
MaxRuns == 2        \* runs of main() against the same machine

Chars == {"a", " ", "<", ">", "&", "\"", "'"}
Strings == UNION {[1..n -> Chars] : n \in 0..MaxStrLen}

\* The text the adapters of one call answer with: nothing, blank, plain, each
\* character html.escape rewrites, and two mixed texts.
Payloads ==
    {<<>>} \cup {<<c>> : c \in Chars} \cup {<<"<", "a", ">">>, <<" ", "&", "a", " ">>}

\* The usage values a metrics source hands over, in tenths of a percent.
Percents == {-50, 425, 1000, 1500}

OSNames == {"Linux", "Windows", "Darwin"}

(***************************************************************************)
(* Generic sequence helpers                                                *)
(***************************************************************************)
RECURSIVE Flatten(_)
Flatten(ss) == IF ss = <<>> THEN <<>> ELSE Head(ss) \o Flatten(Tail(ss))

Range(f) == {f[i] : i \in DOMAIN f}

SeqsUpTo(S, n) == UNION {[1..k -> S] : k \in 0..n}

(***************************************************************************)
(* run_cmd and what a child process can do                                 *)
(***************************************************************************)
\* The value None and a string value, as run_cmd returns them.
\* A JSON document is [k, items]: k = "empty" (nothing printed), "invalid"
\* (text that is not JSON), "null", "num", "obj" or "list".  items are the
\* values of a list, or the value itself for a document that is one value;
\* a value is [k |-> "obj" | "num" | "null", s |-> text field, n |-> number field].
NoDoc == [k |-> "empty", items |-> <<>>]
None == [none |-> TRUE, text |-> <<>>, doc |-> NoDoc]
StrOut(t, d) == [none |-> FALSE, text |-> t, doc |-> d]

\* Python truthiness of an "str | None": None and "" are false.
Truthy(o) == ~o.none /\ (o.text # <<>> \/ o.doc.k # "empty")

\* str.strip() on the model's alphabet (the only whitespace is " ").
RECURSIVE LStrip(_)
LStrip(t) == IF t # <<>> /\ Head(t) = " " THEN LStrip(Tail(t)) ELSE t
RECURSIVE RStrip(_)
RStrip(t) == IF t # <<>> /\ t[Len(t)] = " " THEN RStrip(SubSeq(t, 1, Len(t) - 1)) ELSE t
Strip(t) == RStrip(LStrip(t))

\* run_cmd (below): stdout.strip() when the child exits with 0, else None.  A child is
\* [how |-> "exit" | "notfound" | "timeout" | "oserror", code, text, doc]:
\* text is the stdout of a plain-text tool, doc the JSON document a tool asked
\* for JSON printed (k = "empty" when it printed nothing).
run_cmd_any_exit(child) ==
    IF child.how = "exit"
    THEN StrOut(Strip(child.text), child.doc)
    ELSE None

run_cmd(child) ==
    IF child.how = "exit" /\ child.code = 0
    THEN StrOut(Strip(child.text), child.doc)
    ELSE None

Failed(how) == [how |-> how, code |-> 0, text |-> <<>>, doc |-> NoDoc]
Exited(code, t, d) == [how |-> "exit", code |-> code, text |-> t, doc |-> d]

\* The children of a plain-text tool whose output, if any, is s.
TextChildren(s) ==
    {Failed("notfound"), Failed("timeout"), Failed("oserror"),
     Exited(1, s, NoDoc), Exited(0, s, NoDoc)}

(***************************************************************************)
(* esc and the HTML helpers                                                *)
(***************************************************************************)
\* html.escape(str(text)) with quote=True, character by character.
EscChar(c) ==
    CASE c = "&" -> <<"&", "a", "m", "p", ";">>
      [] c = "<" -> <<"&", "l", "t", ";">>
      [] c = ">" -> <<"&", "g", "t", ";">>
      [] c = "\"" -> <<"&", "q", "u", "o", "t", ";">>
      [] c = "'" -> <<"&", "#", "x", "2", "7", ";">>
      [] OTHER -> <<c>>

esc(text) == Flatten([i \in 1..Len(text) |-> EscChar(text[i])])

\* A part of a fragment.
Part(title, kind, src, keys, texts, bars) ==
    [title |-> title, kind |-> kind, src |-> src, keys |-> keys,
     texts |-> texts, bars |-> bars]

\* make_kv_table(rows) / make_table(rows): every cell goes through esc.
\* cells are the cells holding outside text, in document order.
make_table(cells) == [i \in 1..Len(cells) |-> esc(cells[i])]

\* The key-value table with its cells written as they come.
make_kv_table_raw(cells) == cells

make_kv_table(cells) == [i \in 1..Len(cells) |-> esc(cells[i])]

\* progress_bar(percent): the fill width is clamped to [0, 100], the label is
\* formatted from the argument itself.
Max(a, b) == IF a >= b THEN a ELSE b
Min(a, b) == IF a <= b THEN a ELSE b

progress_bar(percent) ==
    LET clamped == Max(0, Min(1000, percent))
    IN  [width |-> clamped, label |-> percent]

\* The content handed to make_sub: data of some adapters, or a note.
Content(src, keys, texts, bars) ==
    [note |-> FALSE, src |-> src, keys |-> keys, texts |-> texts, bars |-> bars]
NoteContent == [note |-> TRUE, src |-> {}, keys |-> <<>>, texts |-> <<>>, bars |-> <<>>]

\* make_sub(title, content): the title goes through esc; tt is the outside
\* text inside the title (<<>> for a static title).
make_sub(title, tt, content) ==
    Part(title, IF content.note THEN "subnote" ELSE "sub", content.src, content.keys,
         (IF tt = <<>> THEN <<>> ELSE <<esc(tt)>>) \o content.texts, content.bars)

\* '<p class="note">...</p>' appended without make_sub.
NotePart(title) == Part(title, "note", {}, <<>>, <<>>, <<>>)

Degraded(p) == p.kind \in {"note", "subnote"}

(***************************************************************************)
(* What the machine answers: the module globals and the adapters' replies  *)
(***************************************************************************)
\* JSON values and documents a PowerShell / lsblk query can print, with text
\* field s and number field n.
JObj(s, n) == [k |-> "obj", s |-> s, n |-> n]
JNum == [k |-> "num", s |-> <<>>, n |-> 0]
JNull == [k |-> "null", s |-> <<>>, n |-> 0]

\* The documents a JSON tool can print when its records look like o.
JsonDocs(o) ==
    {NoDoc, [k |-> "invalid", items |-> <<>>],
     [k |-> "null", items |-> <<JNull>>], [k |-> "num", items |-> <<JNum>>],
     [k |-> "list", items |-> <<JNum>>], [k |-> "list", items |-> <<o, JNull>>],
     [k |-> "obj", items |-> <<o>>]}
    \cup {[k |-> "list", items |-> [i \in 1..n |-> o]] : n \in 0..MaxItems}

\* The output of a line-oriented tool, kept as parsed: k = "text" is a
\* non-empty output and items the records the collector's parser finds in it
\* (memory devices, GPU lines of 15 fields, display-adapter lines).
TextDocs(o) ==
    {NoDoc} \cup {[k |-> "text", items |-> [i \in 1..n |-> o]] : n \in 0..MaxItems}

\* The children of a tool whose output is one of docs.
DocChildren(docs) ==
    {Failed("notfound"), Exited(1, <<>>, NoDoc)} \cup {Exited(0, <<>>, d) : d \in docs}

\* json.loads(output): "error" stands for json.JSONDecodeError.
json_loads(o) == IF o.doc.k = "invalid" THEN [error |-> TRUE, items |-> <<>>, k |-> "invalid"]
                 ELSE [error |-> FALSE, items |-> o.doc.items, k |-> o.doc.k]

\* The result of a collector: the parts it returns, the adapters it invoked
\* in order, the adapters whose data it accepted, and whether an exception
\* left the function instead of a return value.
\* The sections joined last to first.
Result_reversed(parts, calls, ok, raised) ==
    [parts |-> IF raised THEN <<>> ELSE [i \in 1..Len(parts) |-> parts[Len(parts) + 1 - i]],
     calls |-> calls, ok |-> ok, raised |-> raised]

Result(parts, calls, ok, raised) ==
    [parts |-> IF raised THEN <<>> ELSE parts, calls |-> calls, ok |-> ok, raised |-> raised]

(***************************************************************************)
(* collect_system_summary                                                  *)
(***************************************************************************)
\* g: the module globals [os, psutil, cpuinfo, GPUtil]; in.s: the text
\* platform.uname() answers with.
collect_system_summary(g, in) ==
    LET keys == <<"Operating System", "OS Version", "Machine Architecture",
                  "Node Name", "Python Version">>
                \o (IF g.psutil THEN <<"Boot Time">> ELSE <<>>)
        cells == <<in.s, in.s, in.s, in.s>>
        calls == <<"platform.uname">> \o (IF g.psutil THEN <<"psutil.boot_time">> ELSE <<>>)
    IN  IF g.psutil /\ in.psutil_raises
        THEN Result(<<>>, calls, {}, TRUE)
        ELSE Result(<<Part("", "table", {"platform"} \cup (IF g.psutil THEN {"psutil"} ELSE {}),
                           keys, make_kv_table(cells), <<>>)>>,
                    calls, {"platform"}, FALSE)

(***************************************************************************)
(* collect_cpu_info                                                        *)
(***************************************************************************)
\* in: s (the text every source answers with), psutil_raises (a psutil call
\* outside any try block raises), overall and per_cpu (psutil.cpu_percent),
\* has_sensors (hasattr(psutil, "sensors_temperatures")), temps (what it
\* returns: "empty", "noentries" = chips without entries, "rows"), sensors and
\* thermal (the children of `sensors` and of the PowerShell thermal query).
\* The temperature chain keeps t = [content, found, calls, ok, raised]:
\* temp_html, temp_found, the adapters invoked so far, the adapters whose data
\* was taken, and whether an exception is on its way out.
EmptyContent == Content({}, <<>>, <<>>, <<>>)
ChainStart == [content |-> EmptyContent, found |-> FALSE, calls |-> <<>>, ok |-> {}, raised |-> FALSE]

\* if psutil and hasattr(psutil, "sensors_temperatures"): ...
PsutilSensors(t, g, in) ==
    IF g.psutil /\ in.has_sensors
    THEN LET got == in.temps = "rows"
         IN  [t EXCEPT !.calls = @ \o <<"psutil.sensors_temperatures">>,
                       !.content = IF got THEN Content({"psutil.sensors_temperatures"}, <<>>,
                                                       make_table(<<in.s>>), <<>>)
                                   ELSE @,
                       !.found = got,
                       !.ok = IF got THEN {"psutil.sensors_temperatures"} ELSE {}]
    ELSE t

\* A later stage of the sensors chain that took its data from two adapters:
\* the guard on temp_found is gone and the dump is appended to temp_html.
SensorsTool_appending(t, g, in) ==
    IF g.os = "Linux"
    THEN LET output == run_cmd(in.sensors)
         IN  [t EXCEPT !.calls = @ \o <<"sensors">>,
                       !.content = IF Truthy(output)
                                   THEN Content(@.src \cup {"sensors"}, <<>>,
                                                @.texts \o <<esc(output.text)>>, <<>>)
                                   ELSE @,
                       !.found = @ \/ Truthy(output),
                       !.ok = IF Truthy(output) THEN @ \cup {"sensors"} ELSE @]
    ELSE t

\* if not temp_found and platform.system() == "Linux": run_cmd(["sensors"])
SensorsTool(t, g, in) ==
    IF ~t.found /\ g.os = "Linux"
    THEN LET output == run_cmd(in.sensors)
         IN  [t EXCEPT !.calls = @ \o <<"sensors">>,
                       !.content = IF Truthy(output)
                                   THEN Content({"sensors"}, <<>>, <<esc(output.text)>>, <<>>)
                                   ELSE @,
                       !.found = Truthy(output),
                       !.ok = IF Truthy(output) THEN {"sensors"} ELSE @]
    ELSE t

\* if not temp_found and platform.system() == "Windows": the PowerShell
\* MSAcpi_ThermalZoneTemperature query.  Only json.JSONDecodeError is caught:
\* entry.get on a value that is no object raises AttributeError.
ThermalZones(t, g, in) ==
    IF ~t.found /\ g.os = "Windows"
    THEN LET output == run_cmd(in.thermal)
             data == json_loads(output)
             parsed == Truthy(output) /\ ~data.error
             raised == parsed /\ \E i \in 1..Len(data.items) : data.items[i].k # "obj"
             got == parsed /\ ~raised
         IN  [t EXCEPT !.calls = @ \o <<"powershell:thermal">>,
                       !.content = IF got
                                   THEN Content({"powershell:thermal"}, <<>>,
                                                make_kv_table([i \in 1..Len(data.items) |->
                                                                  data.items[i].s]), <<>>)
                                   ELSE @,
                       !.found = got,
                       !.ok = IF got THEN {"powershell:thermal"} ELSE @,
                       !.raised = raised]
    ELSE t

\* The chain without its closing note.
CpuTemperature_without_note(g, in) ==
    ThermalZones(SensorsTool(PsutilSensors(ChainStart, g, in), g, in), g, in)

\* if not temp_found: temp_html = '<p class="note">Temperature data not available ...'
CpuTemperature(g, in) ==
    LET t == ThermalZones(SensorsTool(PsutilSensors(ChainStart, g, in), g, in), g, in)
    IN  [t EXCEPT !.content = IF t.found THEN @ ELSE NoteContent]

collect_cpu_info(g, in) ==
    LET \* Specifications
        keys == <<"Processor", "Architecture">>
                \o (IF g.cpuinfo
                    THEN <<"Brand", "Vendor", "Family / Model / Stepping", "Arch (detailed)",
                           "Base Frequency", "Current Frequency">>
                    ELSE <<"[py-cpuinfo]">>)
                \o (IF g.psutil THEN <<"Physical Cores", "Logical Cores">> ELSE <<>>)
        cells == <<in.s, in.s>> \o (IF g.cpuinfo THEN <<in.s, in.s, in.s, in.s, in.s, in.s>> ELSE <<>>)
        spec == make_sub("Specifications", <<>>,
                         Content({"platform"} \cup (IF g.cpuinfo THEN {"cpuinfo"} ELSE {})
                                 \cup (IF g.psutil THEN {"psutil"} ELSE {}),
                                 keys, make_kv_table(cells), <<>>))
        calls1 == <<"platform.processor">>
                  \o (IF g.cpuinfo THEN <<"cpuinfo.get_cpu_info">> ELSE <<>>)
                  \o (IF g.psutil THEN <<"psutil.cpu_count">> ELSE <<>>)
        raised1 == g.psutil /\ in.psutil_raises
        \* Usage
        usage == IF g.psutil
                 THEN <<make_sub("Usage", <<>>,
                          Content({"psutil"}, <<>>, <<>>,
                                  <<progress_bar(in.overall)>>
                                  \o [i \in 1..Len(in.per_cpu) |-> progress_bar(in.per_cpu[i])]))>>
                 ELSE <<>>
        calls2 == IF g.psutil THEN <<"psutil.cpu_percent">> ELSE <<>>
        \* Temperature
        t == CpuTemperature(g, in)
    IN  IF raised1 THEN Result(<<>>, calls1, {}, TRUE)
        ELSE Result(<<spec>> \o usage \o <<make_sub("Temperature", <<>>, t.content)>>,
                    calls1 \o calls2 \o t.calls, t.ok, t.raised)

(***************************************************************************)
(* collect_memory_info                                                     *)
(***************************************************************************)
\* dict.get(key, default) on a JSON object's number field; -1 stands for a
\* field the object does not have.
DictGet(n, default) == IF n = -1 THEN default ELSE n

\* The table with the second DDR2 code left out.
smbios_map_without22(code) ==
    CASE code = 20 -> "DDR"
      [] code = 21 -> "DDR2"
      [] code = 24 -> "DDR3"
      [] code = 26 -> "DDR4"
      [] code = 34 -> "DDR5"
      [] OTHER -> "Type " \o ToString(code)

\* smbios_map.get(code, f"Type {code}")
smbios_map(code) ==
    CASE code = 20 -> "DDR"
      [] code = 21 -> "DDR2"
      [] code = 22 -> "DDR2"
      [] code = 24 -> "DDR3"
      [] code = 26 -> "DDR4"
      [] code = 34 -> "DDR5"
      [] OTHER -> "Type " \o ToString(code)

\* The SMBIOSMemoryType values Win32_PhysicalMemory is let to report.
SmbiosCodes == {-1, 0, 19, 20, 21, 22, 23, 24, 25, 26, 27, 33, 34, 35, 99}

\* in: s, psutil_raises, percent and swap_total (psutil.virtual_memory /
\* swap_memory), sudo_dmidecode, dmidecode, win_memory, profiler (children).
\* The labels of the Windows table are the memory types of its rows.
MemoryModules(g, in) ==
    LET \* Linux: sudo dmidecode, then dmidecode
        out1 == run_cmd(in.sudo_dmidecode)
        try2 == g.os = "Linux" /\ ~Truthy(out1)
        out2 == IF try2 THEN run_cmd(in.dmidecode) ELSE out1
        devices == out2.doc.items
        foundL == g.os = "Linux" /\ Truthy(out2) /\ devices # <<>>
        srcL == IF Truthy(out1) THEN "sudo dmidecode" ELSE "dmidecode"
        \* Windows: Win32_PhysicalMemory
        outW == run_cmd(in.win_memory)
        data == json_loads(outW)
        parsedW == g.os = "Windows" /\ Truthy(outW) /\ ~data.error
        raisedW == parsedW /\ \E i \in 1..Len(data.items) : data.items[i].k # "obj"
        foundW == parsedW /\ ~raisedW
        \* macOS: system_profiler SPMemoryDataType
        outD == run_cmd(in.profiler)
        foundD == g.os = "Darwin" /\ Truthy(outD)
        found == foundL \/ foundW \/ foundD
    IN  [content |->
            IF foundL THEN Content({srcL}, <<>>,
                                   make_table([i \in 1..Len(devices) |-> devices[i].s]), <<>>)
            ELSE IF foundW THEN Content({"powershell:memory"},
                                   [i \in 1..Len(data.items) |->
                                       smbios_map(DictGet(data.items[i].n, 0))],
                                   make_table([i \in 1..Len(data.items) |-> data.items[i].s]), <<>>)
            ELSE IF foundD THEN Content({"system_profiler:memory"}, <<>>, <<esc(outD.text)>>, <<>>)
            ELSE NoteContent,
         calls |-> (IF g.os = "Linux" THEN <<"sudo dmidecode">> ELSE <<>>)
                   \o (IF try2 THEN <<"dmidecode">> ELSE <<>>)
                   \o (IF g.os = "Windows" THEN <<"powershell:memory">> ELSE <<>>)
                   \o (IF g.os = "Darwin" THEN <<"system_profiler:memory">> ELSE <<>>),
         ok |-> (IF foundL THEN {srcL} ELSE {})
                \cup (IF foundW THEN {"powershell:memory"} ELSE {})
                \cup (IF foundD THEN {"system_profiler:memory"} ELSE {}),
         found |-> found,
         raised |-> raisedW]

collect_memory_info(g, in) ==
    LET usage == IF g.psutil
                 THEN make_sub("Usage", <<>>,
                        Content({"psutil"}, <<"Total RAM", "Available", "Used", "Cached", "Buffers">>,
                                <<>>,
                                <<progress_bar(in.percent)>>
                                \o (IF in.swap_total > 0 THEN <<progress_bar(in.percent)>> ELSE <<>>)))
                 ELSE NotePart("psutil not installed")
        calls1 == IF g.psutil THEN <<"psutil.virtual_memory", "psutil.swap_memory">> ELSE <<>>
        m == MemoryModules(g, in)
        modules == make_sub("Module Details", <<>>, m.content)
    IN  IF g.psutil /\ in.psutil_raises THEN Result(<<>>, <<"psutil.virtual_memory">>, {}, TRUE)
        ELSE Result(<<usage, modules>>, calls1 \o m.calls, m.ok, m.raised)

(***************************************************************************)
(* collect_gpu_info                                                        *)
(***************************************************************************)
\* A tool looked up with shutil.which before it is run.
OnPath(children) ==
    {[which |-> FALSE, child |-> Failed("notfound")]}
    \cup {[which |-> TRUE, child |-> c] : c \in children}

\* in: s, percent, gputil = [n, raises]: GPUtil.getGPUs() returns n GPUs, and
\* raises = "call" (getGPUs raises), "loop" (rendering the last GPU raises) or
\* "none"; nvidia and rocm (tools on the path or not), lspci, win_video and
\* profiler (children).
GPUtilPart(in) ==
    make_sub("NVIDIA GPU", in.s,
             Content({"GPUtil.getGPUs"},
                     <<"GPU ID", "Name", "Driver", "Memory Total", "Memory Used",
                       "Memory Free", "Temperature">>,
                     make_kv_table(<<in.s, in.s>>),
                     <<progress_bar(in.percent), progress_bar(in.percent)>>))

NvidiaSmiPart(line) ==
    make_sub("NVIDIA GPU", line.s,
             Content({"nvidia-smi"},
                     <<"Index", "Name", "Driver", "Temperature", "GPU Utilization",
                       "Memory Utilization", "Memory Total", "Memory Used", "Memory Free",
                       "GPU Clock", "Memory Clock", "Max GPU Clock", "Max Memory Clock",
                       "Power Draw", "Power Limit">>,
                     make_kv_table(<<line.s, line.s, line.s>>), <<>>))

WinVideoPart(gpu_data) ==
    make_sub("GPU", gpu_data.s,
             Content({"powershell:video"},
                     <<"Name", "Video Processor", "Driver Version", "Adapter RAM",
                       "Refresh Rate", "Status">>,
                     make_kv_table(<<gpu_data.s, gpu_data.s, gpu_data.s, gpu_data.s>>), <<>>))

\* The same test without its "not gpu_found".
TryNvidiaSmi_always(gpu_found, which) == which

\* The same test without its shutil.which.
TryNvidiaSmi_unchecked(gpu_found, which) == ~gpu_found

\* if not gpu_found and shutil.which("nvidia-smi"):
TryNvidiaSmi(gpu_found, which) == ~gpu_found /\ which

\* The closing note left out.
NoGpuNote_forgotten(gpu_found) == <<>>

\* The closing note appended whatever was found.
NoGpuNote_unconditional(gpu_found) == <<NotePart("No GPU information available")>>

\* if not gpu_found: parts.append('<p class="note">No GPU information available ...')
NoGpuNote(gpu_found) ==
    IF ~gpu_found THEN <<NotePart("No GPU information available")>> ELSE <<>>

collect_gpu_info(g, in) ==
    LET \* NVIDIA via GPUtil
        try1 == g.GPUtil
        done1 == IF ~try1 \/ in.gputil.raises = "call" THEN 0
                 ELSE IF in.gputil.raises = "loop" THEN in.gputil.n - 1
                 ELSE in.gputil.n
        parts1 == [i \in 1..done1 |-> GPUtilPart(in)]
        found1 == try1 /\ in.gputil.raises = "none" /\ in.gputil.n > 0
        \* NVIDIA via nvidia-smi
        look2 == ~found1
        try2 == TryNvidiaSmi(found1, in.nvidia.which)
        out2 == run_cmd(in.nvidia.child)
        ok2 == try2 /\ Truthy(out2)
        parts2 == IF ok2 THEN [i \in 1..Len(out2.doc.items) |-> NvidiaSmiPart(out2.doc.items[i])]
                  ELSE <<>>
        found2 == found1 \/ ok2
        \* AMD via rocm-smi
        try3 == in.rocm.which
        out3 == run_cmd(in.rocm.child)
        ok3 == try3 /\ Truthy(out3)
        parts3 == IF ok3 THEN <<make_sub("AMD GPU (rocm-smi)", <<>>,
                                         Content({"rocm-smi"}, <<>>, <<esc(out3.text)>>, <<>>))>>
                  ELSE <<>>
        found3 == found2 \/ ok3
        \* lspci display adapters (Linux)
        try4 == g.os = "Linux"
        out4 == run_cmd(in.lspci)
        vga_lines == out4.doc.items
        ok4 == try4 /\ Truthy(out4) /\ vga_lines # <<>>
        parts4 == IF ok4 THEN <<make_sub("Detected Display Adapters", <<>>,
                                         Content({"lspci"}, <<>>,
                                                 [i \in 1..Len(vga_lines) |-> esc(vga_lines[i].s)],
                                                 <<>>))>>
                  ELSE <<>>
        found4 == found3 \/ ok4
        \* Windows fallback
        try5 == g.os = "Windows" /\ ~found4
        out5 == run_cmd(in.win_video)
        data == json_loads(out5)
        parsed5 == try5 /\ Truthy(out5) /\ ~data.error
        raised5 == parsed5 /\ \E i \in 1..Len(data.items) : data.items[i].k # "obj"
        ok5 == parsed5 /\ ~raised5
        parts5 == IF ok5 THEN [i \in 1..Len(data.items) |-> WinVideoPart(data.items[i])] ELSE <<>>
        found5 == found4 \/ ok5
        \* macOS fallback
        try6 == g.os = "Darwin" /\ ~found5
        out6 == run_cmd(in.profiler)
        ok6 == try6 /\ Truthy(out6)
        parts6 == IF ok6 THEN <<make_sub("GPU (system_profiler)", <<>>,
                                         Content({"system_profiler:displays"}, <<>>,
                                                 <<esc(out6.text)>>, <<>>))>>
                  ELSE <<>>
        gpu_found == found5 \/ ok6
        note == NoGpuNote(gpu_found)
    IN  Result(parts1 \o parts2 \o parts3 \o parts4 \o parts5 \o parts6 \o note,
               (IF try1 THEN <<"GPUtil.getGPUs">> ELSE <<>>)
               \o (IF look2 THEN <<"which:nvidia-smi">> ELSE <<>>)
               \o (IF try2 THEN <<"nvidia-smi">> ELSE <<>>)
               \o <<"which:rocm-smi">>
               \o (IF try3 THEN <<"rocm-smi">> ELSE <<>>)
               \o (IF try4 THEN <<"lspci">> ELSE <<>>)
               \o (IF try5 THEN <<"powershell:video">> ELSE <<>>)
               \o (IF try6 THEN <<"system_profiler:displays">> ELSE <<>>),
               (IF found1 THEN {"GPUtil.getGPUs"} ELSE {})
               \cup (IF ok2 THEN {"nvidia-smi"} ELSE {})
               \cup (IF ok3 THEN {"rocm-smi"} ELSE {})
               \cup (IF ok4 THEN {"lspci"} ELSE {})
               \cup (IF ok5 THEN {"powershell:video"} ELSE {})
               \cup (IF ok6 THEN {"system_profiler:displays"} ELSE {}),
               raised5)

(***************************************************************************)
(* collect_disk_info                                                       *)
(***************************************************************************)
IsDigit(c) == c \in {"0", "1", "2"}

\* re.sub(r'p?\d+$', '', dev): drop the trailing digits, and a "p" before them.
RECURSIVE DropDigits(_)
DropDigits(dev) ==
    IF dev # <<>> /\ IsDigit(dev[Len(dev)]) THEN DropDigits(SubSeq(dev, 1, Len(dev) - 1)) ELSE dev

base_dev(dev) ==
    LET d == DropDigits(dev)
    IN  IF d = dev THEN dev
        ELSE IF d # <<>> /\ d[Len(d)] = "p" THEN SubSeq(d, 1, Len(d) - 1)
        ELSE d

\* x or "N/A"
OrNA(x) == IF x = <<>> THEN <<"N", "/", "A">> ELSE x

\* The documents lsblk --json can print: here k = "obj" is the top-level
\* object and items its "blockdevices"; a device is JObj(s, 1) (type "disk"),
\* JObj(s, 0) (another type) or a value that is no object.
LsblkDocs(s) ==
    {NoDoc, [k |-> "invalid", items |-> <<>>], [k |-> "null", items |-> <<JNull>>],
     [k |-> "list", items |-> <<>>],
     [k |-> "obj", items |-> <<JObj(s, 0)>>], [k |-> "obj", items |-> <<JNum>>]}
    \cup {[k |-> "obj", items |-> [i \in 1..n |-> JObj(s, 1)]] : n \in 0..MaxItems}

\* in: s, psutil_raises, percent, partitions (each [device, access]; access
\* FALSE: disk_usage raises PermissionError/OSError), io ("raises", "empty",
\* "rows"), lsblk, smartctl = [which, sudo, plain], win_disk, profiler.
\* The block of an unreadable partition with the badge of a readable one.
PartitionBlock_badge_kept(p, in) ==
    IF p.access
    THEN [badge |-> "FSTYPE",
          texts |-> <<esc(p.device), esc(in.s), esc(in.s), esc(in.s)>>
                    \o make_kv_table(<<OrNA(in.s), in.s, OrNA(in.s)>>),
          bars |-> <<progress_bar(in.percent)>>]
    ELSE [badge |-> "FSTYPE", texts |-> <<esc(p.device), esc(in.s)>>, bars |-> <<>>]

PartitionBlock(p, in) ==
    IF p.access
    THEN [badge |-> "FSTYPE",
          texts |-> <<esc(p.device), esc(in.s), esc(in.s), esc(in.s)>>
                    \o make_kv_table(<<OrNA(in.s), in.s, OrNA(in.s)>>),
          bars |-> <<progress_bar(in.percent)>>]
    ELSE [badge |-> "NO ACCESS", texts |-> <<esc(p.device), esc(in.s)>>, bars |-> <<>>]

\* The disks of the machine.  smartctl asked about one of them ends as the
\* machine's smartctl does; asked about a name that is no device it exits
\* with status 2.
ExistingDisks == {<<"s", "d", "a">>, <<"n", "v", "m", "e", "0", "n", "1">>}
SmartctlChild(child, dev) == IF dev \in ExistingDisks THEN child ELSE Exited(2, <<>>, NoDoc)

SmartBlock(p, in) ==
    LET out1 == run_cmd(SmartctlChild(in.smartctl.sudo, base_dev(p.device)))
        out == IF ~Truthy(out1)
               THEN run_cmd(SmartctlChild(in.smartctl.plain, base_dev(p.device)))
               ELSE out1
    IN  [html |-> IF Truthy(out) THEN <<esc(base_dev(p.device)), esc(out.text)>> ELSE <<>>,
         calls |-> <<"sudo smartctl">> \o (IF ~Truthy(out1) THEN <<"smartctl">> ELSE <<>>)]

PhysicalDisks(g, in) ==
    LET \* Linux: lsblk
        outL == run_cmd(in.lsblk)
        dataL == json_loads(outL)
        parsedL == g.os = "Linux" /\ Truthy(outL) /\ ~dataL.error
        devices == dataL.items
        raisedL == parsedL /\ (dataL.k # "obj" \/ \E i \in 1..Len(devices) : devices[i].k # "obj")
        phys_rows == SelectSeq(devices, LAMBDA d : d.n = 1)
        foundL == parsedL /\ ~raisedL /\ phys_rows # <<>>
        tableL == IF foundL THEN make_table([i \in 1..Len(phys_rows) |-> phys_rows[i].s]) ELSE <<>>
        \* Linux: smartctl
        tryS == g.os = "Linux" /\ in.smartctl.which
        blocks == IF tryS THEN [i \in 1..Len(in.partitions) |-> SmartBlock(in.partitions[i], in)]
                  ELSE <<>>
        smart_html == Flatten([i \in 1..Len(blocks) |-> blocks[i].html])
        foundS == smart_html # <<>>
        \* Windows: Win32_DiskDrive
        outW == run_cmd(in.win_disk)
        dataW == json_loads(outW)
        parsedW == g.os = "Windows" /\ Truthy(outW) /\ ~dataW.error
        raisedW == parsedW /\ \E i \in 1..Len(dataW.items) : dataW.items[i].k # "obj"
        foundW == parsedW /\ ~raisedW /\ dataW.items # <<>>
        \* macOS: system_profiler SPStorageDataType
        outD == run_cmd(in.profiler)
        foundD == g.os = "Darwin" /\ Truthy(outD)
        phys_found == foundL \/ foundS \/ foundW \/ foundD
    IN  [content |->
            IF g.os = "Linux" /\ phys_found
            THEN Content((IF foundL THEN {"lsblk"} ELSE {}) \cup (IF foundS THEN {"smartctl"} ELSE {}),
                         <<>>, tableL \o smart_html, <<>>)
            ELSE IF foundW
            THEN Content({"powershell:disk"}, <<>>,
                         make_table([i \in 1..Len(dataW.items) |-> dataW.items[i].s]), <<>>)
            ELSE IF foundD
            THEN Content({"system_profiler:storage"}, <<>>, <<esc(outD.text)>>, <<>>)
            ELSE NoteContent,
         calls |-> (IF g.os = "Linux"
                    THEN <<"lsblk">>
                         \o (IF raisedL THEN <<>>
                             ELSE <<"which:smartctl">>
                                  \o Flatten([i \in 1..Len(blocks) |-> blocks[i].calls]))
                    ELSE <<>>)
                   \o (IF g.os = "Windows" THEN <<"powershell:disk">> ELSE <<>>)
                   \o (IF g.os = "Darwin" THEN <<"system_profiler:storage">> ELSE <<>>),
         ok |-> (IF foundL THEN {"lsblk"} ELSE {}) \cup (IF foundS /\ ~raisedL THEN {"smartctl"} ELSE {})
                \cup (IF foundW THEN {"powershell:disk"} ELSE {})
                \cup (IF foundD THEN {"system_profiler:storage"} ELSE {}),
         found |-> phys_found,
         raised |-> raisedL \/ raisedW]

collect_disk_info(g, in) ==
    LET partitions == in.partitions
        blocks == [i \in 1..Len(partitions) |-> PartitionBlock(partitions[i], in)]
        usage == IF partitions # <<>>
                 THEN <<make_sub("Partitions &amp; Usage", <<>>,
                           Content({"psutil"}, [i \in 1..Len(blocks) |-> blocks[i].badge],
                                   Flatten([i \in 1..Len(blocks) |-> blocks[i].texts]),
                                   Flatten([i \in 1..Len(blocks) |-> blocks[i].bars])))>>
                 ELSE <<>>
        io == IF in.io = "rows"
              THEN <<make_sub("I/O Counters", <<>>,
                              Content({"psutil"}, <<>>, make_table(<<in.s>>), <<>>))>>
              ELSE <<>>
        ph == PhysicalDisks(g, in)
        calls1 == <<"psutil.disk_partitions">>
                  \o [i \in 1..Len(partitions) |-> "psutil.disk_usage"]
                  \o <<"psutil.disk_io_counters">>
    IN  IF ~g.psutil THEN Result(<<NotePart("psutil not installed")>>, <<>>, {}, FALSE)
        ELSE IF in.psutil_raises THEN Result(<<>>, <<"psutil.disk_partitions">>, {}, TRUE)
        ELSE Result(usage \o io \o <<make_sub("Physical Disks", <<>>, ph.content)>>,
                    calls1 \o ph.calls, ph.ok, ph.raised)

(***************************************************************************)
(* collect_network_info                                                    *)
(***************************************************************************)
\* The connection states psutil is let to report, in sorted order.
ConnStates == <<"ESTABLISHED", "LISTEN">>

\* status_counts[conn.status] assigned 1 where the code adds 1.
CountOf_assigned(statuses, st) == IF \E i \in 1..Len(statuses) : statuses[i] = st THEN 1 ELSE 0

CountOf(statuses, st) == Cardinality({i \in 1..Len(statuses) : statuses[i] = st})

\* sorted(status_counts.items()) as the rows "STATE=count".
conn_rows(statuses) ==
    LET row(i) == IF CountOf(statuses, ConnStates[i]) > 0
                  THEN <<ConnStates[i] \o "=" \o ToString(CountOf(statuses, ConnStates[i]))>>
                  ELSE <<>>
    IN  Flatten([i \in 1..Len(ConnStates) |-> row(i)])

\* The note of the except psutil.AccessDenied branch; its wording is its key.
AccessDeniedNote == [NoteContent EXCEPT !.keys = <<"Access denied">>]

\* in: s, psutil_raises, resolves (socket.gethostbyname answers), ifaces
\* (number of interfaces), conns = [how, statuses]: psutil.net_connections
\* returns the connections ("ok"), raises psutil.AccessDenied ("denied") or
\* raises something else ("error").
collect_network_info(g, in) ==
    LET host == make_sub("Host", <<>>,
                    Content({"socket"},
                            <<"Hostname", "FQDN">> \o (IF in.resolves THEN <<"Default IP">> ELSE <<>>),
                            make_kv_table(<<in.s, in.s>> \o (IF in.resolves THEN <<in.s>> ELSE <<>>)),
                            <<>>))
        calls0 == <<"socket.gethostname", "socket.getfqdn", "socket.gethostbyname">>
        ifaces == make_sub("Interfaces", <<>>,
                    Content({"psutil"}, [i \in 1..in.ifaces |-> "UP"],
                            Flatten([i \in 1..in.ifaces |->
                                        <<esc(in.s), esc(in.s), esc(in.s), esc(in.s)>>
                                        \o make_table(<<in.s, in.s, in.s, in.s>>)]),
                            <<>>))
        iostats == make_sub("I/O Statistics", <<>>,
                    Content({"psutil"}, <<>>, make_table([i \in 1..in.ifaces |-> in.s]), <<>>))
        calls1 == <<"psutil.net_if_addrs", "psutil.net_if_stats", "psutil.net_io_counters",
                    "psutil.net_connections">>
        conns == IF in.conns.how = "denied" THEN <<make_sub("Active Connections", <<>>, AccessDeniedNote)>>
                 ELSE IF in.conns.statuses # <<>>
                 THEN <<make_sub("Active Connections", <<>>,
                                 Content({"psutil"}, conn_rows(in.conns.statuses), <<>>, <<>>))>>
                 ELSE <<>>
    IN  IF ~g.psutil THEN Result(<<host, NotePart("psutil not installed")>>, calls0, {"socket"}, FALSE)
        ELSE IF in.psutil_raises
        THEN Result(<<>>, calls0 \o <<"psutil.net_if_addrs">>, {}, TRUE)
        ELSE Result(<<host, ifaces, iostats>> \o conns, calls0 \o calls1, {"socket", "psutil"},
                    in.conns.how = "error")

(***************************************************************************)
(* The machines main() is run on                                           *)
(***************************************************************************)
\* A machine is described by how its external tools behave (tools), how its
\* metrics library behaves (lib) and the text its sources answer with (s):
\*   tools  "notfound"   no tool is installed
\*          "exit1"      every tool exits with status 1
\*          "empty"      every tool exits with 0 and prints nothing
\*          "ok"         every tool prints one well-formed record
\*          "notjson"    the JSON tools print text that is not JSON, the
\*                       line-oriented tools print lines without a record
\*          "wrongshape" the JSON tools print the JSON value null
\*          "generic"    only the tools that come with the OS are there, and
\*                       print one well-formed record
\*   lib    "ok"         every call returns one record
\*          "bare"       every call returns nothing (no sensors, partitions,
\*                       interfaces, connections, GPUs)
\*          "denied"     the permission-gated calls are refused
\*          "error"      psutil.net_connections raises another exception
\*          "broken"     the first psutil call of each collector raises
NoChild == Failed("notfound")
Mounted(dev, access) == [device |-> dev, access |-> access]

ToolKinds == {"notfound", "exit1", "empty", "ok", "notjson", "wrongshape", "generic"}
LibKinds == {"ok", "bare", "denied", "error", "broken"}

TextChildOf(tools, s) ==
    CASE tools = "notfound" -> NoChild
      [] tools = "exit1" -> Exited(1, s, NoDoc)
      [] tools = "empty" -> Exited(0, <<>>, NoDoc)
      [] OTHER -> Exited(0, s, NoDoc)

LinesChildOf(tools, s) ==
    CASE tools = "notfound" -> NoChild
      [] tools = "exit1" -> Exited(1, <<>>, NoDoc)
      [] tools = "empty" -> Exited(0, <<>>, NoDoc)
      [] tools = "ok" -> Exited(0, <<>>, [k |-> "text", items |-> <<JObj(s, 0)>>])
      [] OTHER -> Exited(0, <<>>, [k |-> "text", items |-> <<>>])

JsonChildOf(tools, o) ==
    CASE tools = "notfound" -> NoChild
      [] tools = "exit1" -> Exited(1, <<>>, NoDoc)
      [] tools = "empty" -> Exited(0, <<>>, NoDoc)
      [] tools = "ok" -> Exited(0, <<>>, [k |-> "obj", items |-> <<o>>])
      [] tools = "notjson" -> Exited(0, <<>>, [k |-> "invalid", items |-> <<>>])
      [] OTHER -> Exited(0, <<>>, [k |-> "null", items |-> <<JNull>>])

Machine(kind, lib, s) ==
    LET \* the add-on tools (sensors, nvidia-smi, rocm-smi, smartctl) and the others
        addon == IF kind = "generic" THEN "notfound" ELSE kind
        tools == IF kind = "generic" THEN "ok" ELSE kind
        pct == IF lib = "ok" THEN 425 ELSE 1500
        full == lib \in {"ok", "error"}
        sda1 == <<"s", "d", "a", "1">>
    IN  [tools |-> kind, lib |-> lib, host |-> s,
         sys |-> [s |-> s, psutil_raises |-> lib = "broken"],
         cpu |-> [s |-> s, psutil_raises |-> lib = "broken", overall |-> pct,
                  per_cpu |-> IF full THEN <<pct>> ELSE <<>>,
                  has_sensors |-> lib # "bare",
                  temps |-> IF full THEN "rows" ELSE "empty",
                  sensors |-> TextChildOf(addon, s),
                  thermal |-> JsonChildOf(tools, JObj(s, 3000))],
         mem |-> [s |-> s, psutil_raises |-> lib = "broken", percent |-> pct,
                  swap_total |-> IF full THEN 1 ELSE 0,
                  sudo_dmidecode |-> LinesChildOf(IF lib = "denied" THEN "exit1" ELSE tools, s),
                  dmidecode |-> LinesChildOf(tools, s),
                  win_memory |-> JsonChildOf(tools, JObj(s, 26)),
                  profiler |-> TextChildOf(tools, s)],
         gpu |-> [s |-> s, percent |-> pct,
                  gputil |-> [n |-> IF full THEN 1 ELSE 0,
                              raises |-> IF lib \in {"denied", "broken"} THEN "call" ELSE "none"],
                  nvidia |-> [which |-> addon # "notfound", child |-> LinesChildOf(addon, s)],
                  rocm |-> [which |-> addon # "notfound", child |-> TextChildOf(addon, s)],
                  lspci |-> LinesChildOf(tools, s),
                  win_video |-> JsonChildOf(tools, JObj(s, 0)),
                  profiler |-> TextChildOf(tools, s)],
         disk |-> [s |-> s, psutil_raises |-> lib = "broken", percent |-> pct,
                   partitions |-> IF lib = "bare" THEN <<>>
                                  ELSE <<Mounted(sda1, lib # "denied")>>,
                   io |-> IF full THEN "rows" ELSE IF lib = "bare" THEN "empty" ELSE "raises",
                   lsblk |-> JsonChildOf(tools, JObj(s, 1)),
                   smartctl |-> [which |-> addon # "notfound",
                                 sudo |-> TextChildOf(IF lib = "denied" THEN "exit1" ELSE addon, s),
                                 plain |-> TextChildOf(addon, s)],
                   win_disk |-> JsonChildOf(tools, JObj(s, 0)),
                   profiler |-> TextChildOf(tools, s)],
         net |-> [s |-> s, psutil_raises |-> lib = "broken", resolves |-> lib # "bare",
                  ifaces |-> IF lib = "bare" THEN 0 ELSE 1,
                  conns |-> IF lib = "denied" THEN [how |-> "denied", statuses |-> <<>>]
                            ELSE IF lib = "error" THEN [how |-> "error", statuses |-> <<>>]
                            ELSE IF lib = "bare" THEN [how |-> "ok", statuses |-> <<>>]
                            ELSE [how |-> "ok", statuses |-> <<"ESTABLISHED">>]]]

\* The texts the machines answer with: between them every character
\* html.escape rewrites.
MachineTexts ==
    {<<>>, <<"a">>, <<"<", "a", ">">>, <<" ", "&", "a", " ">>, <<"\"", "'">>}

Machines == {Machine(kind, lib, s) : kind \in ToolKinds, lib \in LibKinds, s \in MachineTexts}

\* The machine on which no tool exists and no library call returns anything.
NoMachine == Machine("notfound", "bare", <<>>)

(***************************************************************************)
(* The replies a collector can be called with                              *)
(***************************************************************************)
\* The module globals: platform.system() and which optional modules imported.
GlobalsSet == [os : OSNames, psutil : BOOLEAN, cpuinfo : BOOLEAN, GPUtil : BOOLEAN]

OnlyIf(cond, S, default) == IF cond THEN S ELSE {default}

\* Every reply is drawn only where the collector can look at it: the tools of
\* another OS and the calls into a module that is not there answer nothing.
\* Raising(g, in): in, and with psutil there also in with the first psutil
\* call of the collector raising.
Raising(g, in) ==
    {in} \cup (IF g.psutil THEN {[in EXCEPT !.psutil_raises = TRUE]} ELSE {})

SysInputs(g) ==
    [s : Payloads, psutil_raises : {FALSE}] \cup Raising(g, NoMachine.sys)

CpuInputs(g) ==
    UNION {[s : {s},
            psutil_raises : {FALSE},
            overall : OnlyIf(g.psutil, Percents, 0),
            per_cpu : OnlyIf(g.psutil, SeqsUpTo(Percents, MaxCores), <<>>),
            has_sensors : OnlyIf(g.psutil, BOOLEAN, FALSE),
            temps : OnlyIf(g.psutil, {"empty", "noentries", "rows"}, "empty"),
            sensors : OnlyIf(g.os = "Linux", TextChildren(s), NoChild),
            thermal : OnlyIf(g.os = "Windows", DocChildren(JsonDocs(JObj(s, 3000))), NoChild)]
           : s \in Payloads}
    \cup Raising(g, NoMachine.cpu)

MemInputs(g) ==
    UNION {[s : {s},
            psutil_raises : {FALSE},
            percent : OnlyIf(g.psutil, Percents, 0),
            swap_total : OnlyIf(g.psutil, {0, 1}, 0),
            sudo_dmidecode : OnlyIf(g.os = "Linux", DocChildren(TextDocs(JObj(s, 0))), NoChild),
            dmidecode : OnlyIf(g.os = "Linux", DocChildren(TextDocs(JObj(s, 0))), NoChild),
            win_memory : OnlyIf(g.os = "Windows",
                                UNION {DocChildren(JsonDocs(JObj(s, c))) : c \in SmbiosCodes},
                                NoChild),
            profiler : OnlyIf(g.os = "Darwin", TextChildren(s), NoChild)]
           : s \in Payloads}
    \cup Raising(g, NoMachine.mem)

GPUtilReplies ==
    {[n |-> n, raises |-> r] : n \in 0..MaxItems, r \in {"none", "call"}}
    \cup {[n |-> n, raises |-> "loop"] : n \in 1..MaxItems}

GpuInputs(g) ==
    UNION {[s : {s},
            percent : OnlyIf(g.GPUtil, {425, 1500}, 0),
            gputil : OnlyIf(g.GPUtil, GPUtilReplies, [n |-> 0, raises |-> "none"]),
            nvidia : OnPath(DocChildren(TextDocs(JObj(s, 0)))),
            rocm : OnPath({Failed("timeout"), Exited(1, s, NoDoc), Exited(0, s, NoDoc)}),
            lspci : OnlyIf(g.os = "Linux", DocChildren(TextDocs(JObj(s, 0))), NoChild),
            win_video : OnlyIf(g.os = "Windows", DocChildren(JsonDocs(JObj(s, 0))), NoChild),
            profiler : OnlyIf(g.os = "Darwin", TextChildren(s), NoChild)]
           : s \in Payloads}

\* The lists of mounted partitions psutil.disk_partitions() is let to return.
PartitionLists ==
    LET sda1 == <<"s", "d", "a", "1">>
        sda2 == <<"s", "d", "a", "2">>
        sda == <<"s", "d", "a">>
        nvme == <<"n", "v", "m", "e", "0", "n", "1">>
    IN  {<<>>, <<Mounted(sda1, TRUE)>>, <<Mounted(sda1, FALSE)>>, <<Mounted(sda, TRUE)>>,
         <<Mounted(nvme, TRUE)>>,
         <<Mounted(sda1, TRUE), Mounted(sda2, TRUE)>>,
         <<Mounted(sda1, FALSE), Mounted(sda2, TRUE)>>,
         <<Mounted(sda1, TRUE), Mounted(sda2, FALSE)>>,
         <<Mounted(sda1, FALSE), Mounted(sda2, FALSE)>>,
         <<Mounted(sda1, TRUE), Mounted(nvme, TRUE)>>,
         <<Mounted(sda1, TRUE), Mounted(sda2, FALSE), Mounted(sda, TRUE)>>}

SmartctlReplies(s) ==
    {[which |-> FALSE, sudo |-> NoChild, plain |-> NoChild]}
    \cup {[which |-> TRUE, sudo |-> a, plain |-> b] :
            a \in {NoChild, Exited(1, s, NoDoc), Exited(0, s, NoDoc)},
            b \in {NoChild, Failed("timeout"), Exited(0, s, NoDoc)}}

DiskInputs(g) ==
    UNION {[s : {s},
            psutil_raises : {FALSE},
            percent : OnlyIf(g.psutil, {425, 1500}, 0),
            partitions : OnlyIf(g.psutil, PartitionLists, <<>>),
            io : OnlyIf(g.psutil, {"raises", "empty", "rows"}, "empty"),
            lsblk : OnlyIf(g.psutil /\ g.os = "Linux", DocChildren(LsblkDocs(s)), NoChild),
            smartctl : OnlyIf(g.psutil /\ g.os = "Linux", SmartctlReplies(s),
                              [which |-> FALSE, sudo |-> NoChild, plain |-> NoChild]),
            win_disk : OnlyIf(g.psutil /\ g.os = "Windows", DocChildren(JsonDocs(JObj(s, 0))),
                              NoChild),
            profiler : OnlyIf(g.psutil /\ g.os = "Darwin", TextChildren(s), NoChild)]
           : s \in Payloads}
    \cup Raising(g, NoMachine.disk)

ConnReplies ==
    {[how |-> "denied", statuses |-> <<>>], [how |-> "error", statuses |-> <<>>]}
    \cup {[how |-> "ok", statuses |-> st] : st \in SeqsUpTo(Range(ConnStates), MaxItems)}

NetInputs(g) ==
    [s : Payloads,
     psutil_raises : {FALSE},
     resolves : BOOLEAN,
     ifaces : OnlyIf(g.psutil, 0..MaxItems, 0),
     conns : OnlyIf(g.psutil, ConnReplies, [how |-> "ok", statuses |-> <<>>])]
    \cup Raising(g, NoMachine.net)

(***************************************************************************)
(* State                                                                   *)
(***************************************************************************)
VARIABLES
    globals,    \* platform.system() and the import results psutil, cpuinfo, GPUtil
    env,        \* the machine: what every adapter answers
    pc,         \* where main() is, or where the caller of a collector is
    run,        \* the number of the current run of main()
    missing,    \* main's list of missing packages
    content,    \* main's content: the cards made so far
    html_output,\* main's rendered document
    file,       \* the report file in the home directory
    first,      \* the report file as the first run wrote it
    ret,        \* the last value returned by a collector or helper
    arg         \* the argument a helper was called with

vars == <<globals, env, pc, run, missing, content, html_output, file, first, ret, arg>>

NoRet == [fn |-> "", parts |-> <<>>, calls |-> <<>>, ok |-> {}, raised |-> FALSE]
Ret(fn, r) == [fn |-> fn, parts |-> r.parts, calls |-> r.calls, ok |-> r.ok, raised |-> r.raised]
NoArg == [s |-> <<>>, n |-> 0, codes |-> <<>>, child |-> Failed("notfound"), out |-> None,
          partitions |-> <<>>, io |-> "empty", conns |-> [how |-> "ok", statuses |-> <<>>],
          found |-> {}]
NoFile == [written |-> FALSE, run |-> 0, hostname |-> <<>>, os_name |-> <<>>,
           missing |-> <<>>, content |-> <<>>]

(***************************************************************************)
(* main                                                                    *)
(***************************************************************************)
\* make_card(title, icon, content, card_id)
make_card(title, card_id, parts) == [id |-> card_id, title |-> title, parts |-> parts]

\* The list with the import name of py-cpuinfo in place of its package name.
MissingPackages_import_names(g) ==
    (IF ~g.psutil THEN <<"psutil">> ELSE <<>>)
    \o (IF ~g.cpuinfo THEN <<"cpuinfo">> ELSE <<>>)
    \o (IF ~g.GPUtil THEN <<"GPUtil">> ELSE <<>>)

\* The checks for missing packages, in the order main makes them.
MissingPackages(g) ==
    (IF ~g.psutil THEN <<"psutil">> ELSE <<>>)
    \o (IF ~g.cpuinfo THEN <<"py-cpuinfo">> ELSE <<>>)
    \o (IF ~g.GPUtil THEN <<"GPUtil">> ELSE <<>>)

Init ==
    /\ globals \in GlobalsSet
    /\ env \in Machines
    /\ pc = "start"
    /\ run = 1
    /\ missing = <<>>
    /\ content = <<>>
    /\ html_output = NoFile
    /\ file = NoFile
    /\ first = NoFile
    /\ ret = NoRet
    /\ arg = NoArg

\* main, up to the first collector: arguments, host fields, missing packages.
MainStart ==
    /\ pc = "start"
    /\ missing' = MissingPackages(globals)
    /\ pc' = "system"
    /\ UNCHANGED <<globals, env, run, content, html_output, file, first, ret, arg>>

\* The same statement in a main that saves the report after every card.
Collect_saving(at, next, r, fn, title, card_id, fresh) ==
    /\ pc = at
    /\ ret' = Ret(fn, r)
    /\ IF r.raised
       THEN pc' = "crashed" /\ UNCHANGED <<content, file>>
       ELSE /\ pc' = next
            /\ content' = (IF fresh THEN <<>> ELSE content) \o <<make_card(title, card_id, r.parts)>>
            /\ file' = [written |-> TRUE, run |-> run, hostname |-> esc(env.host),
                        os_name |-> esc(env.host), missing |-> missing, content |-> content']
    /\ UNCHANGED <<globals, env, run, missing, html_output, first, arg>>

\* One "content = / += make_card(..., collect_x(), ...)" statement of main.  An
\* exception leaving the collector leaves main as well: the process ends.
Collect(at, next, r, fn, title, card_id, fresh) ==
    /\ pc = at
    /\ ret' = Ret(fn, r)
    /\ IF r.raised
       THEN pc' = "crashed" /\ UNCHANGED content
       ELSE /\ pc' = next
            /\ content' = (IF fresh THEN <<>> ELSE content) \o <<make_card(title, card_id, r.parts)>>
    /\ UNCHANGED <<globals, env, run, missing, html_output, file, first, arg>>

\* The first card added with += to whatever content holds.
CollectSystem_appending ==
    Collect("system", "cpu", collect_system_summary(globals, env.sys),
            "collect_system_summary", "System Overview", "system", FALSE)

\* content = make_card("System Overview", ..., collect_system_summary(), "system")
CollectSystem ==
    Collect("system", "cpu", collect_system_summary(globals, env.sys),
            "collect_system_summary", "System Overview", "system", TRUE)

\* The CPU card assigned with = in place of +=.
CollectCpu_assigning ==
    Collect("cpu", "memory", collect_cpu_info(globals, env.cpu),
            "collect_cpu_info", "CPU", "cpu", TRUE)

CollectCpu ==
    Collect("cpu", "memory", collect_cpu_info(globals, env.cpu),
            "collect_cpu_info", "CPU", "cpu", FALSE)
CollectMemory ==
    Collect("memory", "gpu", collect_memory_info(globals, env.mem),
            "collect_memory_info", "Memory", "memory", FALSE)
CollectGpu ==
    Collect("gpu", "disks", collect_gpu_info(globals, env.gpu),
            "collect_gpu_info", "GPU", "gpu", FALSE)
CollectDisk ==
    Collect("disks", "network", collect_disk_info(globals, env.disk),
            "collect_disk_info", "Disks", "disks", FALSE)
CollectNetwork ==
    Collect("network", "render", collect_network_info(globals, env.net),
            "collect_network_info", "Network", "network", FALSE)

\* HTML_TEMPLATE.format(hostname=esc(hostname), timestamp=..., os_name=esc(os_name),
\* missing_banner=..., content=content); the timestamp is the run's.
Render ==
    /\ pc = "render"
    /\ html_output' = [written |-> TRUE, run |-> run, hostname |-> esc(env.host),
                       os_name |-> esc(env.host), missing |-> missing, content |-> content]
    /\ pc' = "write"
    /\ UNCHANGED <<globals, env, run, missing, content, file, first, ret, arg>>

\* with open(output_path, "w") as f: f.write(html_output)
WriteReport ==
    /\ pc = "write"
    /\ file' = html_output
    /\ first' = IF run = 1 THEN html_output ELSE first
    /\ pc' = "open"
    /\ UNCHANGED <<globals, env, run, missing, content, html_output, ret, arg>>

\* open() raises: the only failure main does not survive by design.
WriteFails ==
    /\ pc = "write"
    /\ pc' = "crashed"
    /\ UNCHANGED <<globals, env, run, missing, content, html_output, file, first, ret, arg>>

\* webbrowser.open, whose failure is swallowed; main returns.
OpenBrowser ==
    /\ pc = "open"
    /\ pc' = "done"
    /\ UNCHANGED <<globals, env, run, missing, content, html_output, file, first, ret, arg>>

\* main is entered again on the same machine: the same modules, the same
\* replies, the file of the last run on disk.  Nothing is cleared on its
\* behalf: what main does not assign afresh is as the last run left it.
RunAgain ==
    /\ pc \in {"done", "crashed"}
    /\ run < MaxRuns
    /\ run' = run + 1
    /\ pc' = "start"
    /\ ret' = NoRet
    /\ UNCHANGED <<globals, env, missing, content, html_output, file, first, arg>>

Next ==
    \/ MainStart
    \/ CollectSystem
    \/ CollectCpu
    \/ CollectMemory
    \/ CollectGpu
    \/ CollectDisk
    \/ CollectNetwork
    \/ Render
    \/ WriteReport
    \/ WriteFails
    \/ OpenBrowser
    \/ RunAgain

Spec == Init /\ [][Next]_vars

(***************************************************************************)
(* The collectors and helpers called on their own                          *)
(***************************************************************************)
\* Every collector is a module-level function: a caller (a test) sets the
\* module globals, lets the adapters answer as it likes, calls the function
\* and looks at what comes back.
InitCollect ==
    /\ globals = [os |-> "Linux", psutil |-> FALSE, cpuinfo |-> FALSE, GPUtil |-> FALSE]
    /\ env = NoMachine
    /\ pc = "idle"
    /\ run = 0
    /\ missing = <<>>
    /\ content = <<>>
    /\ html_output = NoFile
    /\ file = NoFile
    /\ first = NoFile
    /\ ret = NoRet
    /\ arg = NoArg

Call(fn, g, r, a) ==
    /\ pc = "idle"
    /\ pc' = "returned"
    /\ globals' = g
    /\ ret' = Ret(fn, r)
    /\ arg' = a
    /\ UNCHANGED <<env, run, missing, content, html_output, file, first>>

\* The globals a collector reads; the others stay as they are.
With(os, ps, ci, gu) == [os |-> os, psutil |-> ps, cpuinfo |-> ci, GPUtil |-> gu]

CallSystem ==
    /\ pc = "idle"
    /\ \E ps \in BOOLEAN :
         LET g == With(globals.os, ps, globals.cpuinfo, globals.GPUtil)
         IN  \E in \in SysInputs(g) :
               Call("collect_system_summary", g, collect_system_summary(g, in), NoArg)

\* arg.child: the child process of the first of these tools the collector
\* ran (tools[i] was the child children[i]); NoChild when it ran none.
ChildRun(r, tools, children) ==
    LET ran == {i \in 1..Len(tools) : tools[i] \in Range(r.calls)}
    IN  IF ran = {} THEN NoChild ELSE children[CHOOSE i \in ran : \A j \in ran : i <= j]

CallCpu ==
    /\ pc = "idle"
    /\ \E os \in OSNames, ps \in BOOLEAN, ci \in BOOLEAN :
         LET g == With(os, ps, ci, globals.GPUtil)
         IN  \E in \in CpuInputs(g) :
               LET r == collect_cpu_info(g, in)
               IN  Call("collect_cpu_info", g, r,
                        [NoArg EXCEPT !.child = ChildRun(r, <<"sensors", "powershell:thermal">>,
                                                         <<in.sensors, in.thermal>>)])

\* arg.codes: the SMBIOSMemoryType fields of the modules Windows reported.
CallMemory ==
    /\ pc = "idle"
    /\ \E os \in OSNames, ps \in BOOLEAN :
         LET g == With(os, ps, globals.cpuinfo, globals.GPUtil)
         IN  \E in \in MemInputs(g) :
               LET r == collect_memory_info(g, in)
               IN  Call("collect_memory_info", g, r,
                        [NoArg EXCEPT !.codes = [i \in 1..Len(in.win_memory.doc.items) |->
                                                    in.win_memory.doc.items[i].n],
                                      !.child = ChildRun(r, <<"powershell:memory">>,
                                                         <<in.win_memory>>)])

\* arg.found: the tools shutil.which would find on this machine.
CallGpu ==
    /\ pc = "idle"
    /\ \E os \in OSNames, gu \in BOOLEAN :
         LET g == With(os, globals.psutil, globals.cpuinfo, gu)
         IN  \E in \in GpuInputs(g) :
               LET r == collect_gpu_info(g, in)
               IN  Call("collect_gpu_info", g, r,
                        [NoArg EXCEPT !.child = ChildRun(r, <<"powershell:video">>,
                                                         <<in.win_video>>),
                                      !.found = (IF in.nvidia.which THEN {"nvidia-smi"} ELSE {})
                                                \cup (IF in.rocm.which THEN {"rocm-smi"} ELSE {})])

\* arg.partitions, arg.io: what psutil.disk_partitions and
\* psutil.disk_io_counters answered.
CallDisk ==
    /\ pc = "idle"
    /\ \E os \in OSNames, ps \in BOOLEAN :
         LET g == With(os, ps, globals.cpuinfo, globals.GPUtil)
         IN  \E in \in DiskInputs(g) :
               LET r == collect_disk_info(g, in)
               IN  Call("collect_disk_info", g, r,
                        [NoArg EXCEPT !.child = ChildRun(r, <<"lsblk", "powershell:disk">>,
                                                         <<in.lsblk, in.win_disk>>),
                                      !.partitions = in.partitions,
                                      !.io = in.io,
                                      !.found = IF in.smartctl.which THEN {"smartctl"} ELSE {}])

\* arg.conns: what psutil.net_connections answered.
CallNetwork ==
    /\ pc = "idle"
    /\ \E ps \in BOOLEAN :
         LET g == With(globals.os, ps, globals.cpuinfo, globals.GPUtil)
         IN  \E in \in NetInputs(g) :
               Call("collect_network_info", g, collect_network_info(g, in),
                    [NoArg EXCEPT !.conns = in.conns, !.s = in.s, !.n = in.ifaces])

\* esc(s) for every text up to MaxStrLen.
CallEsc ==
    /\ pc = "idle"
    /\ \E s \in Strings :
         Call("esc", globals,
              Result(<<Part("", "text", {}, <<>>, <<esc(s)>>, <<>>)>>, <<>>, {}, FALSE),
              [NoArg EXCEPT !.s = s])

\* progress_bar(p) for every p from -10.0 to 110.0 and for 150.0.
CallProgressBar ==
    /\ pc = "idle"
    /\ \E p \in (-100..1100) \cup {1500} :
         Call("progress_bar", globals,
              Result(<<Part("", "bar", {}, <<>>, <<>>, <<progress_bar(p)>>)>>, <<>>, {}, FALSE),
              [NoArg EXCEPT !.n = p])

\* run_cmd(cmd) for every way the child can end and every text up to
\* MaxStrLen on its stdout; arg.child is the child, arg.out what came back.
CallRunCmd ==
    /\ pc = "idle"
    /\ \E child \in {Failed("notfound"), Failed("timeout"), Failed("oserror")}
                    \cup {Exited(code, s, NoDoc) : code \in {0, 1, 2}, s \in Strings} :
         Call("run_cmd", globals,
              Result(<<>>, <<"subprocess.run">>,
                     IF run_cmd(child).none THEN {} ELSE {"subprocess.run"}, FALSE),
              [NoArg EXCEPT !.child = child, !.out = run_cmd(child)])

\* The caller is done with the value and puts the globals back.
Return ==
    /\ pc = "returned"
    /\ pc' = "idle"
    /\ globals' = [os |-> "Linux", psutil |-> FALSE, cpuinfo |-> FALSE, GPUtil |-> FALSE]
    /\ ret' = NoRet
    /\ arg' = NoArg
    /\ UNCHANGED <<env, run, missing, content, html_output, file, first>>

NextCollect ==
    \/ CallSystem
    \/ CallCpu
    \/ CallMemory
    \/ CallGpu
    \/ CallDisk
    \/ CallNetwork
    \/ CallEsc
    \/ CallProgressBar
    \/ CallRunCmd
    \/ Return

SpecCollect == InitCollect /\ [][NextCollect]_vars

(***************************************************************************)
(* Properties                                                              *)
(***************************************************************************)
DomainCollectors ==
    {"collect_system_summary", "collect_cpu_info", "collect_memory_info",
     "collect_gpu_info", "collect_disk_info", "collect_network_info"}

HasDegraded(parts) == \E i \in 1..Len(parts) : Degraded(parts[i])

\* No optional library imported, and every run_cmd returns None.
NothingAvailable ==
    /\ ~globals.psutil /\ ~globals.cpuinfo /\ ~globals.GPUtil
    /\ env.tools \in {"notfound", "exit1"}

\* C1: with every optional library absent and every external tool
\* unavailable, each of the six collectors returns (it does not raise) at
\* least one part: a section or a "not available" note.  Both the value it
\* returns and the card main makes of it are non-empty.
C1_NonEmptySnapshot ==
    NothingAvailable =>
        /\ ret.fn \in DomainCollectors => ~ret.raised /\ Len(ret.parts) >= 1
        /\ \A i \in 1..Len(content) : Len(content[i].parts) >= 1
        /\ pc # "crashed" \/ html_output.written

\* C1 witness: all six collectors have returned on such a machine, the GPU
\* one with its single note.
C1_Witness ==
    /\ NothingAvailable
    /\ pc = "render"
    /\ Len(content) = 6
    /\ content[4].parts = <<NotePart("No GPU information available")>>
    /\ ret.fn = "collect_network_info" /\ Len(ret.parts) = 2

\* An adapter was invoked by the last call, and its data was taken.
Invoked(a) == \E i \in 1..Len(ret.calls) : ret.calls[i] = a
Succeeded(a) == a \in ret.ok

\* The candidates of the two fallback chains with their place in the order;
\* the last GPU place is held by the OS-specific listings.
TemperatureChain ==
    [a \in {"psutil.sensors_temperatures", "sensors", "powershell:thermal"} |->
        CASE a = "psutil.sensors_temperatures" -> 1
          [] a = "sensors" -> 2
          [] OTHER -> 3]
GpuChain ==
    [a \in {"GPUtil.getGPUs", "nvidia-smi", "rocm-smi", "lspci", "powershell:video",
            "system_profiler:displays"} |->
        CASE a = "GPUtil.getGPUs" -> 1
          [] a = "nvidia-smi" -> 2
          [] a = "rocm-smi" -> 3
          [] OTHER -> 4]

\* Once a candidate of the chain has succeeded, no later one is invoked.
StopsAtFirstSuccess(chain) ==
    \A a \in DOMAIN chain, b \in DOMAIN chain :
        chain[a] < chain[b] /\ Succeeded(a) => ~Invoked(b)

\* C2 as stated: in the CPU temperature chain and in the GPU chain alike, a
\* candidate that succeeds keeps every later candidate from being invoked.
C2_FallbackOrdering ==
    /\ ret.fn = "collect_cpu_info" => StopsAtFirstSuccess(TemperatureChain)
    /\ ret.fn = "collect_gpu_info" => StopsAtFirstSuccess(GpuChain)

\* The GPU sources that are skipped once an earlier source has succeeded.
GpuSkippable ==
    [a \in {"GPUtil.getGPUs", "nvidia-smi", "rocm-smi", "lspci", "powershell:video",
            "system_profiler:displays"} |->
        a \in {"nvidia-smi", "powershell:video", "system_profiler:displays"}]

\* C2 amended: the CPU temperature chain stops at its first success; in the
\* GPU chain only nvidia-smi and the Windows / macOS listings are skipped after
\* an earlier success, while rocm-smi is looked up on every call and lspci is
\* run on every call on Linux, whatever succeeded before them.
C2_FallbackOrderingAmended ==
    /\ ret.fn = "collect_cpu_info" => StopsAtFirstSuccess(TemperatureChain)
    /\ ret.fn = "collect_gpu_info" =>
         /\ \A a \in DOMAIN GpuChain, b \in DOMAIN GpuChain :
              GpuChain[a] < GpuChain[b] /\ Succeeded(a) /\ GpuSkippable[b] => ~Invoked(b)
         /\ Invoked("which:rocm-smi")
         /\ (Invoked("lspci") <=> globals.os = "Linux")

\* C2 witness: GPUtil has listed a GPU, nvidia-smi was neither looked up nor
\* run, and rocm-smi and lspci were run all the same and both delivered.
C2_Witness ==
    /\ ret.fn = "collect_gpu_info"
    /\ ret.ok = {"GPUtil.getGPUs", "rocm-smi", "lspci"}
    /\ ~Invoked("nvidia-smi") /\ ~Invoked("which:nvidia-smi")

\* The sources of the sub-topic with this title in the last snapshot, and of
\* the snapshot as a whole.
SourcesOf(title) ==
    UNION {ret.parts[i].src : i \in {j \in 1..Len(ret.parts) : ret.parts[j].title = title}}
SourcesOfSnapshot == UNION {ret.parts[i].src : i \in 1..Len(ret.parts)}

AtMostOne(S) == Cardinality(S) <= 1

BarsOf(parts) == Flatten([i \in 1..Len(parts) |-> parts[i].bars])

\* A percentage in tenths that lies in [0.0, 100.0].
InRange(n) == n \in 0..1000

\* C4 as stated: whatever percentage progress_bar is given, the fill width
\* and the percentage label it renders both lie in [0, 100]; -5 renders as 0.0
\* and 150 as 100.0 in both places.  This covers progress_bar called on its
\* own and every bar inside a collector's snapshot.
C4_PercentClamped ==
    \A i \in 1..Len(BarsOf(ret.parts)) :
        InRange(BarsOf(ret.parts)[i].width) /\ InRange(BarsOf(ret.parts)[i].label)

\* The label the inventory is said to show for an SMBIOSMemoryType field:
\* the six known codes by name, any other code N as "Type N", a missing
\* field (-1) as code 0.
MemoryTypeLabel(n) ==
    IF n = 20 THEN "DDR"
    ELSE IF n \in {21, 22} THEN "DDR2"
    ELSE IF n = 24 THEN "DDR3"
    ELSE IF n = 26 THEN "DDR4"
    ELSE IF n = 34 THEN "DDR5"
    ELSE IF n = -1 THEN "Type 0"
    ELSE "Type " \o ToString(n)

\* The type labels of the module table in the last memory snapshot.
ModuleTypes ==
    Flatten([i \in 1..Len(ret.parts) |->
                IF ret.parts[i].title = "Module Details" THEN ret.parts[i].keys ELSE <<>>])

\* C5: when the Windows module inventory delivered, the Type cell of every
\* module row is the label of that module's SMBIOSMemoryType: 20, 21, 22, 24,
\* 26, 34 give DDR, DDR2, DDR2, DDR3, DDR4, DDR5, any other code N gives
\* "Type N", and a module without the field gives "Type 0".
C5_SmbiosMapping ==
    ret.fn = "collect_memory_info" /\ Succeeded("powershell:memory") =>
        /\ Len(ModuleTypes) = Len(arg.codes)
        /\ \A i \in 1..Len(arg.codes) : ModuleTypes[i] = MemoryTypeLabel(arg.codes[i])
        /\ \A i \in 1..Len(arg.codes) :
             /\ arg.codes[i] = 26 => ModuleTypes[i] = "DDR4"
             /\ arg.codes[i] = 99 => ModuleTypes[i] = "Type 99"

\* C5 witness: Windows reported two modules of type code 22, and both rows
\* of the module table say DDR2.
C5_Witness ==
    /\ ret.fn = "collect_memory_info"
    /\ Succeeded("powershell:memory")
    /\ arg.codes = <<22, 22>>
    /\ ModuleTypes = <<"DDR2", "DDR2">>

\* The five character references html.escape writes.
Entities ==
    {<<"&", "a", "m", "p", ";">>, <<"&", "l", "t", ";">>, <<"&", "g", "t", ";">>,
     <<"&", "q", "u", "o", "t", ";">>, <<"&", "#", "x", "2", "7", ";">>}

\* A rendered text in which nothing is live markup: no bare <, >, " or ',
\* and every & opens a character reference.
Inert(text) ==
    \A i \in 1..Len(text) :
        /\ text[i] \notin {"<", ">", "\"", "'"}
        /\ text[i] = "&" =>
             \E e \in Entities :
                 /\ i + Len(e) - 1 <= Len(text)
                 /\ SubSeq(text, i, i + Len(e) - 1) = e

\* Every outside text of these parts, as rendered.
TextsOf(parts) == Flatten([i \in 1..Len(parts) |-> parts[i].texts])
TextsOfCards(cards) == Flatten([i \in 1..Len(cards) |-> TextsOf(cards[i].parts)])
AllInert(texts) == \A i \in 1..Len(texts) : Inert(texts[i])

\* C6: every text that came from an adapter (tool output, library fields,
\* device, interface and host names) is inert wherever it is rendered: in
\* what a collector returns, in main's content, in the rendered document and
\* in the file; the host fields of the document are esc of what the machine
\* answered.
C6_Escaped ==
    /\ AllInert(TextsOf(ret.parts))
    /\ AllInert(TextsOfCards(content))
    /\ \A doc \in {html_output, file} :
         /\ AllInert(TextsOfCards(doc.content))
         /\ Inert(doc.hostname) /\ Inert(doc.os_name)
         /\ doc.written => doc.hostname = esc(env.host) /\ doc.os_name = esc(env.host)

\* C6 witness: a report was written on a machine whose every source answers
\* "<a>", with all libraries there and every tool delivering; the text is
\* in the file twenty times or more, as "&lt;a&gt;" only.
C6_Witness ==
    /\ file.written
    /\ env.host = <<"<", "a", ">">> /\ env.tools = "ok" /\ env.lib = "ok"
    /\ globals.psutil /\ globals.cpuinfo /\ globals.GPUtil
    /\ file.hostname = <<"&", "l", "t", ";", "a", "&", "g", "t", ";">>
    /\ Cardinality({i \in 1..Len(TextsOfCards(file.content)) :
                       TextsOfCards(file.content)[i] = <<"&", "l", "t", ";", "a", "&", "g", "t", ";">>})
         >= 20
    /\ \A i \in 1..Len(TextsOfCards(file.content)) :
         TextsOfCards(file.content)[i] # <<"<", "a", ">">>

\* The cards of a document by id, and the order main makes them in.
CardIds(cards) == [i \in 1..Len(cards) |-> cards[i].id]
DomainOrder == <<"system", "cpu", "memory", "gpu", "disks", "network">>
Rendered == pc \in {"write", "open", "done"}

\* C7 as stated: with no optional library and no working tool the run makes
\* the six cards in order, every one of the six holds a degraded section, and
\* the missing packages are psutil, py-cpuinfo and GPUtil.
C7_AllDegraded ==
    NothingAvailable /\ Rendered =>
        /\ CardIds(html_output.content) = DomainOrder
        /\ \A i \in 1..6 : HasDegraded(html_output.content[i].parts)
        /\ Range(html_output.missing) = {"psutil", "py-cpuinfo", "GPUtil"}

\* C7 amended: with no optional library and no working tool the run makes the
\* six cards in order; the CPU, Memory, GPU, Disk and Network cards each hold
\* a degraded section, the System card holds its table (without Boot Time)
\* and no note; the missing packages are psutil, py-cpuinfo and GPUtil.
C7_HardwareCardsDegraded ==
    NothingAvailable /\ Rendered =>
        /\ CardIds(html_output.content) = DomainOrder
        /\ \A i \in 2..6 : HasDegraded(html_output.content[i].parts)
        /\ ~HasDegraded(html_output.content[1].parts)
        /\ Len(html_output.content[1].parts) = 1
        /\ html_output.content[1].parts[1].kind = "table"
        /\ "Boot Time" \notin Range(html_output.content[1].parts[1].keys)
        /\ html_output.missing = <<"psutil", "py-cpuinfo", "GPUtil">>

\* C7 witness: such a run on Windows has written its report.
C7_Witness ==
    /\ NothingAvailable /\ globals.os = "Windows" /\ env.tools = "exit1"
    /\ pc = "done" /\ file.written /\ file.run = run
    /\ Len(file.content) = 6

C9_DomainOrder ==
    /\ pc \in {"cpu", "memory", "gpu", "disks", "network", "render"} =>
         /\ Len(content) <= 6
         /\ CardIds(content) = SubSeq(DomainOrder, 1, Len(content))
    /\ Rendered => CardIds(html_output.content) = DomainOrder
    /\ file.written => CardIds(file.content) = DomainOrder

\* C9 witness: a report was written although every tool failed and the
\* permission-gated library calls were refused.
C9_Witness ==
    /\ file.written /\ file.run = 1 /\ pc = "open"
    /\ env.tools = "exit1" /\ env.lib = "denied" /\ globals.psutil
    /\ CardIds(file.content) = DomainOrder

\* C10 as stated: no failure of a probe leaves a collector as an exception,
\* so a run ends early only when the report file cannot be written: no
\* collector raises, and a run that crashed had rendered all six cards.
C10_FaultContainment ==
    /\ ~ret.raised
    /\ pc = "crashed" => Len(content) = 6 /\ html_output.written /\ html_output.run = run

ChildFailed == arg.child.how # "exit" \/ arg.child.code # 0
ChildExitedZero == arg.child.how = "exit" /\ arg.child.code = 0
SensorsRan == ret.fn = "collect_cpu_info" /\ Invoked("sensors")

\* C12 as stated: a non-zero exit code, a missing executable or a timeout
\* gives None without an exception; an exit with code 0 gives a string, and
\* the collector that ran the tool takes and uses that output, an empty one
\* included.
C12_ToolClassification ==
    /\ ret.fn = "run_cmd" =>
         /\ ~ret.raised
         /\ ChildFailed => arg.out = None
         /\ ChildExitedZero => ~arg.out.none /\ arg.out.text = Strip(arg.child.text)
    /\ SensorsRan =>
         /\ ~ret.raised
         /\ ChildFailed => ~Succeeded("sensors")
         /\ ChildExitedZero => Succeeded("sensors") /\ SourcesOf("Temperature") = {"sensors"}

\* C12 amended: a non-zero exit code, a missing executable or a timeout gives
\* None without an exception; an exit with code 0 gives the stripped standard
\* output, and the collector that ran the tool takes and uses it exactly when
\* it is not empty after stripping: empty or blank output of a tool that
\* exited with 0 is handled like an unavailable tool.
C12_ToolClassificationAmended ==
    /\ ret.fn = "run_cmd" =>
         /\ ~ret.raised
         /\ ChildFailed => arg.out = None
         /\ ChildExitedZero => ~arg.out.none /\ arg.out.text = Strip(arg.child.text)
    /\ SensorsRan =>
         /\ ~ret.raised
         /\ ChildFailed => ~Succeeded("sensors")
         /\ ChildExitedZero =>
              IF Strip(arg.child.text) # <<>>
              THEN /\ ret.ok = {"sensors"}
                   /\ SourcesOf("Temperature") = {"sensors"}
                   /\ ret.parts[Len(ret.parts)].texts = <<esc(Strip(arg.child.text))>>
              ELSE /\ ret.ok = {}
                   /\ Degraded(ret.parts[Len(ret.parts)])

\* C12 witness: `sensors` exited with 0 and printed blanks only; the
\* Temperature section is the note.
C12_Witness ==
    /\ SensorsRan /\ ChildExitedZero
    /\ arg.child.text = <<" ">>
    /\ ret.parts[Len(ret.parts)].title = "Temperature"
    /\ Degraded(ret.parts[Len(ret.parts)])

\* The adapters that parse JSON, and the documents of the shape each
\* expects: PowerShell prints one object or a list of objects, lsblk one
\* object whose "blockdevices" are objects.
JsonAdapters ==
    {"powershell:thermal", "powershell:memory", "powershell:video", "powershell:disk", "lsblk"}
AllObjects(items) == \A i \in 1..Len(items) : items[i].k = "obj"
ExpectedShape(a, doc) ==
    IF a = "lsblk" THEN doc.k = "obj" /\ Len(doc.items) >= 1 /\ AllObjects(doc.items)
    ELSE doc.k \in {"obj", "list"} /\ Len(doc.items) >= 1 /\ AllObjects(doc.items)

\* The JSON adapter a ran, its tool exited with 0 and printed something.
JsonPrinted(a) == Invoked(a) /\ ChildExitedZero /\ arg.child.doc.k # "empty"

\* C13 as stated: when a JSON adapter gets output that is not JSON, or JSON
\* of another shape than it expects (null, a number, a list in place of an
\* object, a list of values that are no objects), no exception leaves the
\* collector, the adapter's data is not used, and the degraded note is shown
\* unless another adapter of the sub-topic delivered.
C13_MalformedOutput ==
    \A a \in JsonAdapters :
        JsonPrinted(a) /\ ~ExpectedShape(a, arg.child.doc) =>
            /\ ~ret.raised
            /\ ~Succeeded(a)
            /\ ret.ok = {} => HasDegraded(ret.parts)

\* The sub-topics of each domain, by section title, and how often a title
\* occurs in the last snapshot.
SubTopics ==
    [fn \in {"collect_cpu_info", "collect_memory_info", "collect_disk_info",
             "collect_network_info"} |->
        CASE fn = "collect_cpu_info" -> {"Specifications", "Usage", "Temperature"}
          [] fn = "collect_memory_info" -> {"Usage", "Module Details"}
          [] fn = "collect_disk_info" -> {"Partitions &amp; Usage", "I/O Counters", "Physical Disks"}
          [] OTHER -> {"Host", "Interfaces", "I/O Statistics", "Active Connections"}]
Count(title) == Cardinality({i \in 1..Len(ret.parts) : ret.parts[i].title = title})
Section(title) == ret.parts[CHOOSE i \in 1..Len(ret.parts) : ret.parts[i].title = title]
Titles == [i \in 1..Len(ret.parts) |-> ret.parts[i].title]
Returned == ret.fn \in DOMAIN SubTopics /\ ~ret.raised

ToolCalls ==
    {"sensors", "powershell:thermal", "sudo dmidecode", "dmidecode", "powershell:memory",
     "system_profiler:memory", "nvidia-smi", "rocm-smi", "lspci", "powershell:video",
     "system_profiler:displays", "lsblk", "sudo smartctl", "smartctl", "powershell:disk",
     "system_profiler:storage"}
Executable(call) ==
    CASE call \in {"sudo dmidecode", "sudo smartctl"} -> "sudo"
      [] call \in {"powershell:thermal", "powershell:memory", "powershell:video",
                   "powershell:disk"} -> "powershell"
      [] call \in {"system_profiler:memory", "system_profiler:displays",
                   "system_profiler:storage"} -> "system_profiler"
      [] OTHER -> call
LookedUpBefore(tool, i) == \E j \in 1..(i - 1) : ret.calls[j] = "which:" \o tool

\* C15 as stated: every run_cmd invocation comes after a shutil.which for
\* the executable it starts.
C15_LookupBeforeRun ==
    \A i \in 1..Len(ret.calls) :
        ret.calls[i] \in ToolCalls => LookedUpBefore(Executable(ret.calls[i]), i)

\* The tools the code looks up, and the OS test in front of the others.
LookedUpTools == {"nvidia-smi", "rocm-smi", "smartctl"}
GuardOf(call) == IF call = "sudo smartctl" THEN "smartctl" ELSE call
OsOf(call) ==
    CASE Executable(call) = "powershell" -> {"Windows"}
      [] Executable(call) = "system_profiler" -> {"Darwin"}
      [] OTHER -> {"Linux"}

\* C15 amended: only nvidia-smi, rocm-smi and smartctl are run after a
\* shutil.which that found them (smartctl first through sudo, which is not
\* looked up); sensors, dmidecode, sudo, lspci, lsblk, powershell and
\* system_profiler are run without any lookup, behind a test of the OS alone,
\* and no lookup is made for them.
C15_LookupOnlyForAddOns ==
    \A i \in 1..Len(ret.calls) :
        /\ ret.calls[i] \in ToolCalls /\ GuardOf(ret.calls[i]) \in LookedUpTools =>
             /\ GuardOf(ret.calls[i]) \in arg.found
             /\ LookedUpBefore(GuardOf(ret.calls[i]), i)
        /\ ret.calls[i] \in ToolCalls /\ GuardOf(ret.calls[i]) \notin LookedUpTools =>
             /\ globals.os \in OsOf(ret.calls[i])
             /\ ~LookedUpBefore(Executable(ret.calls[i]), Len(ret.calls) + 1)
        /\ \A tool \in ToolCalls \cup {"sudo", "powershell", "system_profiler"} :
             ret.calls[i] = "which:" \o tool => tool \in LookedUpTools

\* C15 witness: nvidia-smi was looked up and not found, rocm-smi was looked
\* up, found and run, and lspci was run with no lookup at all.
C15_Witness ==
    /\ ret.fn = "collect_gpu_info"
    /\ arg.found = {"rocm-smi"}
    /\ Invoked("which:nvidia-smi") /\ ~Invoked("nvidia-smi")
    /\ Invoked("which:rocm-smi") /\ Invoked("rocm-smi")
    /\ Invoked("lspci") /\ ~Invoked("which:lspci")

\* The vendor-specific GPU sources, and whether one of them succeeded in
\* the last call.
VendorSources == {"GPUtil.getGPUs", "nvidia-smi", "rocm-smi"}
VendorSucceeded == ret.fn = "collect_gpu_info" /\ ret.ok \cap VendorSources # {}

\* C16: once GPUtil, nvidia-smi or rocm-smi has succeeded, the Windows and
\* macOS device listings are not invoked, the "No GPU information available"
\* note is not in the snapshot, and a section made from lspci is the
\* "Detected Display Adapters" section at the very end, with nothing but
\* vendor sections before it.
C16_GpuPrecedence ==
    VendorSucceeded =>
        /\ ~Invoked("powershell:video") /\ ~Invoked("system_profiler:displays")
        /\ ~HasDegraded(ret.parts)
        /\ \A i \in 1..Len(ret.parts) :
             IF ret.parts[i].src = {"lspci"}
             THEN i = Len(ret.parts) /\ ret.parts[i].title = "Detected Display Adapters"
             ELSE ret.parts[i].src \subseteq VendorSources /\ ret.parts[i].src # {}
        /\ Succeeded("lspci") <=> "lspci" \in SourcesOfSnapshot

\* C16 witness: on Linux GPUtil listed a GPU and lspci found display
\* adapters; the snapshot is the NVIDIA section followed by the adapters.
C16_Witness ==
    /\ ret.fn = "collect_gpu_info" /\ globals.os = "Linux"
    /\ ret.ok = {"GPUtil.getGPUs", "lspci"}
    /\ Len(ret.parts) = 2
    /\ ret.parts[1].src = {"GPUtil.getGPUs"}
    /\ ret.parts[2].title = "Detected Display Adapters"

\* The disk a mounted device is said to belong to: a partition's name
\* without its partition suffix, a whole-disk name as it is.
DiskOf(dev) ==
    CASE dev = <<"s", "d", "a", "1">> -> <<"s", "d", "a">>
      [] dev = <<"s", "d", "a", "2">> -> <<"s", "d", "a">>
      [] OTHER -> dev

\* The SMART blocks of the last disk snapshot when smartctl alone fed the
\* Physical Disks section: its texts are the blocks' summary and dump in
\* turn.
SmartOnly == ret.fn = "collect_disk_info" /\ ~ret.raised /\ ret.ok = {"smartctl"}
SmartTexts == Section("Physical Disks").texts
SmartSummaries == [i \in 1..(Len(SmartTexts) \div 2) |-> SmartTexts[2 * i - 1]]

\* C17 as stated: there is one SMART block per distinct disk among the
\* mounted devices, titled with the disk's name: two partitions of one disk
\* share a block, and a whole-disk name is kept as it is.
C17_OneBlockPerDisk ==
    SmartOnly =>
        /\ \A i, j \in 1..Len(SmartSummaries) : SmartSummaries[i] = SmartSummaries[j] => i = j
        /\ Range(SmartSummaries) = {esc(DiskOf(arg.partitions[i].device)) :
                                       i \in 1..Len(arg.partitions)}

\* The Partitions & Usage section of the last disk snapshot: one badge per
\* block; a readable partition's block holds seven texts and a bar, an
\* unreadable one's two texts; the first text of a block is the device.
PartitionsListed ==
    ret.fn = "collect_disk_info" /\ ~ret.raised /\ globals.psutil /\ arg.partitions # <<>>
BlockSize(p) == IF p.access THEN 7 ELSE 2
RECURSIVE BlockStart(_)
BlockStart(i) == IF i = 1 THEN 1 ELSE BlockStart(i - 1) + BlockSize(arg.partitions[i - 1])
Readable == {i \in 1..Len(arg.partitions) : arg.partitions[i].access}

\* C18: for n mounted partitions the section holds n blocks in the order of
\* the partitions, each headed by its device; the block of a partition whose
\* usage query failed carries the NO ACCESS badge and no usage bar, the
\* others their filesystem badge and one bar; a failed query neither ends
\* the collector nor costs a later partition its block: once the usage
\* queries have run, the collector is only ever ended by the misshapen
\* JSON of a physical-disk tool.
C18_PartitionBlocks ==
    /\ ret.fn = "collect_disk_info" /\ ret.raised /\ Invoked("psutil.disk_usage") =>
           \E a \in {"lsblk", "powershell:disk"} :
               JsonPrinted(a) /\ ~ExpectedShape(a, arg.child.doc)
    /\ PartitionsListed =>
        LET sec == Section("Partitions &amp; Usage")
            n == Len(arg.partitions)
        IN  /\ Count("Partitions &amp; Usage") = 1
            /\ Len(sec.keys) = n
            /\ \A i \in 1..n : sec.keys[i] = "NO ACCESS" <=> ~arg.partitions[i].access
            /\ Len(sec.texts) = BlockStart(n) + BlockSize(arg.partitions[n]) - 1
            /\ \A i \in 1..n : sec.texts[BlockStart(i)] = esc(arg.partitions[i].device)
            /\ Len(sec.bars) = Cardinality(Readable)
            /\ Count("Physical Disks") = 1

\* C18 witness: of three mounted partitions the second was unreadable; the
\* section holds three blocks, the second with NO ACCESS, the third complete.
C18_Witness ==
    /\ PartitionsListed
    /\ Len(arg.partitions) = 3 /\ Readable = {1, 3}
    /\ Section("Partitions &amp; Usage").keys = <<"FSTYPE", "NO ACCESS", "FSTYPE">>
    /\ Len(Section("Partitions &amp; Usage").bars) = 2
    /\ Section("Partitions &amp; Usage").texts[10] = <<"s", "d", "a">>

\* psutil.net_connections was called in the last network snapshot, and what
\* the Host, Interfaces and I/O Statistics sections hold for the host text
\* arg.s and arg.n interfaces, whatever the enumeration did.
Enumerated == ret.fn = "collect_network_info" /\ Invoked("psutil.net_connections")
EarlierSectionsKept ==
    /\ Len(ret.parts) >= 3
    /\ <<Titles[1], Titles[2], Titles[3]>> = <<"Host", "Interfaces", "I/O Statistics">>
    /\ \A i \in 1..3 : ~Degraded(ret.parts[i])
    /\ ret.parts[1].texts[1] = esc(arg.s)
    /\ Len(ret.parts[2].keys) = arg.n /\ Len(ret.parts[2].texts) = 8 * arg.n
    /\ ret.parts[3].texts = [i \in 1..arg.n |-> esc(arg.s)]
    /\ {"socket", "psutil"} \subseteq ret.ok
Connections(st) == {i \in 1..Len(arg.conns.statuses) : arg.conns.statuses[i] = st}
HistogramRow(st) == st \o "=" \o ToString(Cardinality(Connections(st)))
RECURSIVE SumOf(_, _)
SumOf(count, S) ==
    IF S = {} THEN 0 ELSE LET x == CHOOSE y \in S : TRUE IN count[x] + SumOf(count, S \ {x})

\* C19: a denied connection enumeration leaves the Network snapshot with
\* the Host, Interfaces and I/O Statistics sections as collected, followed
\* by one Active Connections section holding the access-denied note (and no
\* generic note); an enumeration that returns connections gives one
\* Active Connections section after them with one row per distinct state,
\* in sorted order of the states, each with the number of connections in
\* that state, the counts summing to the number of connections; one that
\* returns no connection adds no section.
C19_ActiveConnections ==
    Enumerated /\ arg.conns.how # "error" =>
        /\ ~ret.raised
        /\ EarlierSectionsKept
        /\ arg.conns.how = "denied" =>
              /\ Titles = <<"Host", "Interfaces", "I/O Statistics", "Active Connections">>
              /\ ret.parts[4].kind = "subnote" /\ ret.parts[4].keys = <<"Access denied">>
        /\ arg.conns.how = "ok" /\ arg.conns.statuses # <<>> =>
              LET rows == ret.parts[4].keys
                  states == Range(arg.conns.statuses)
              IN  /\ Titles = <<"Host", "Interfaces", "I/O Statistics", "Active Connections">>
                  /\ ~Degraded(ret.parts[4])
                  /\ Len(rows) = Cardinality(states)
                  /\ \A st \in states : \E i \in 1..Len(rows) : rows[i] = HistogramRow(st)
                  /\ \A i, j \in 1..Len(ConnStates) :
                        i < j /\ {ConnStates[i], ConnStates[j]} \subseteq states =>
                            rows = <<HistogramRow(ConnStates[i]), HistogramRow(ConnStates[j])>>
                  /\ \E count \in [states -> 1..Len(arg.conns.statuses)] :
                        /\ \A st \in states :
                              \E i \in 1..Len(rows) : rows[i] = st \o "=" \o ToString(count[st])
                        /\ SumOf(count, states) = Len(arg.conns.statuses)
        /\ arg.conns.how = "ok" /\ arg.conns.statuses = <<>> =>
              Titles = <<"Host", "Interfaces", "I/O Statistics">>

\* C19 witnesses: the enumeration was denied on a machine with two
\* interfaces and the note follows the three sections; and two connections
\* in the same state gave one row with the count 2.
C19_Witness ==
    /\ Enumerated /\ arg.conns.how = "denied" /\ arg.n = 2
    /\ Len(ret.parts) = 4 /\ ret.parts[4].keys = <<"Access denied">>
    /\ Len(ret.parts[2].keys) = 2

C19_HistogramWitness ==
    /\ Enumerated /\ arg.conns.statuses = <<"LISTEN", "LISTEN">>
    /\ ret.parts[4].keys = <<"LISTEN=2">>

\* The display order of each domain as the claim lists it: the sub-topics
\* of a domain by section title (a GPU section by the family of its title),
\* a snapshot-wide note standing where the code appends it.
SectionOrder ==
    [fn \in {"collect_cpu_info", "collect_memory_info", "collect_gpu_info",
             "collect_disk_info", "collect_network_info"} |->
        CASE fn = "collect_cpu_info" -> <<{"Specifications"}, {"Usage"}, {"Temperature"}>>
          [] fn = "collect_memory_info" ->
                <<{"Usage", "psutil not installed"}, {"Module Details"}>>
          [] fn = "collect_gpu_info" ->
                <<{"NVIDIA GPU"}, {"AMD GPU (rocm-smi)"}, {"Detected Display Adapters"},
                  {"GPU", "GPU (system_profiler)"}, {"No GPU information available"}>>
          [] fn = "collect_disk_info" ->
                <<{"psutil not installed"}, {"Partitions &amp; Usage"}, {"I/O Counters"},
                  {"Physical Disks"}>>
          [] fn = "collect_network_info" ->
                <<{"Host"}, {"Interfaces", "psutil not installed"}, {"I/O Statistics"},
                  {"Active Connections"}>>]
Known(fn, title) == \E k \in 1..Len(SectionOrder[fn]) : title \in SectionOrder[fn][k]
Rank(fn, title) == CHOOSE k \in 1..Len(SectionOrder[fn]) : title \in SectionOrder[fn][k]
Repeatable == {"NVIDIA GPU", "GPU"}

\* C20: in every snapshot a collector returns, every section is one of the
\* domain's sub-topics and the sections stand in the domain's fixed order
\* whatever the data: of two sections the earlier never belongs later in
\* the order, and only the per-GPU sections of one family occur repeatedly.
C20_SectionOrder ==
    ret.fn \in DOMAIN SectionOrder /\ ~ret.raised =>
        /\ \A i \in 1..Len(Titles) : Known(ret.fn, Titles[i])
        /\ \A i, j \in 1..Len(Titles) :
              i < j => \/ Rank(ret.fn, Titles[i]) < Rank(ret.fn, Titles[j])
                       \/ Titles[i] = Titles[j] /\ Titles[i] \in Repeatable

\* C20 witness: a GPU snapshot with an NVIDIA section, the AMD section and
\* the display adapters, in that order.
C20_Witness ==
    /\ ret.fn = "collect_gpu_info" /\ ~ret.raised
    /\ Titles = <<"NVIDIA GPU", "AMD GPU (rocm-smi)", "Detected Display Adapters">>

\* C21 as stated: whatever the adapters return, the GPU snapshot
\* collect_gpu_info returns holds at least one GPU section or the
\* "No GPU information available" note.
C21_GpuNeverEmpty ==
    ret.fn = "collect_gpu_info" /\ ~ret.raised =>
        \/ \E i \in 1..Len(ret.parts) : ~Degraded(ret.parts[i])
        \/ Count("No GPU information available") = 1

\* The sub-topic each fallback chain feeds: the collector, the sections that
\* belong to it in the last snapshot, and its "not available" note among
\* them.  The found flag of a chain is true at its end exactly when a
\* source of the chain was accepted (ret.ok).
ChainRan ==
    /\ ret.fn \in {"collect_cpu_info", "collect_memory_info", "collect_gpu_info",
                   "collect_disk_info"}
    /\ ~ret.raised
    /\ ret.fn = "collect_disk_info" => globals.psutil
ChainSections ==
    LET title == CASE ret.fn = "collect_cpu_info" -> "Temperature"
                   [] ret.fn = "collect_memory_info" -> "Module Details"
                   [] OTHER -> "Physical Disks"
    IN  IF ret.fn = "collect_gpu_info" THEN 1..Len(ret.parts)
        ELSE {i \in 1..Len(ret.parts) : ret.parts[i].title = title}
FoundFlag == ret.ok \ {"socket", "psutil"} # {}
ChainNote == \E i \in ChainSections : Degraded(ret.parts[i])
ChainData == \E i \in ChainSections : ~Degraded(ret.parts[i])

\* C22 as stated: at the end of each fallback chain (CPU temperature,
\* memory modules, GPU, physical disks) the sub-topic's "not available"
\* note is in the snapshot if and only if the chain's found flag is still
\* false, and the snapshot never holds both data of the sub-topic and its
\* note.
C22_FoundFlag ==
    ChainRan =>
        /\ ChainNote <=> ~FoundFlag
        /\ ~(ChainNote /\ ChainData)

====
